---- MODULE Spec2Model ----
(***************************************************************************)
(* A model of the bounded stack of CInt values, src/stack.py (class Stack). *)
(* The state is one Stack object (its _values list and its max_size), the   *)
(* record of the last call made on it, and history variables that remember  *)
(* the calls the properties are about.                                      *)
(***************************************************************************)
EXTENDS Integers, Sequences, FiniteSets, TLC

(* ------------------------------ bounds --------------------------------- *)

\* Largest explicit capacity given to the constructor.
MaxCap == 3

\* Largest ordinary CInt value pushed (the values are CIntMinValue and 1..MaxVal).
MaxVal == 1

\* Longest list the model lets the stack grow to (only an unbounded stack,
\* max_size = sys.maxsize, is ever held back by it).
LenBound == MaxCap + 1

\* Longest list of items of the other stack of a comparison.
OtherLen == 2

(* ------------------------ values of the program ------------------------ *)

\* sys.maxsize (the value of a 32-bit build of the interpreter).
SysMaxsize == 2147483647

\* CInt.min_value: the smallest value a CInt holds (32-bit two's complement).
CIntMinValue == (-2147483647) - 1

\* A CInt object holding v.
CInt(v) == [cls |-> "CInt", val |-> v]

\* A Python object that is not a CInt (a plain int).
PlainInt == [cls |-> "int", val |-> 1]

\* isinstance(value, CInt)
IsCInt(value) == value.cls = "CInt"

CInts == {CInt(CIntMinValue)} \cup {CInt(v) : v \in 1..MaxVal}

Objects == CInts \cup {PlainInt}

\* The lists over S of length at most n.
SeqsUpTo(S, n) == UNION {[1..k -> S] : k \in 0..n}

\* What a call gives back: the new _values, what it returns (retKind says
\* whether that is None, one CInt, held as a one-element sequence, or a list)
\* and the exception it raises ("none" when it returns normally).
Outcome(vals, kind, ret, err) ==
    [values |-> vals, retKind |-> kind, ret |-> ret, err |-> err]

Raise(vals, err) == Outcome(vals, "None", <<>>, err)

(* ----------------------------- properties ------------------------------ *)

\* Stack.count / Stack.__len__
count(vals) == Len(vals)

\* Stack.is_empty
is_empty(vals) == IF count(vals) = 0 THEN TRUE ELSE FALSE

\* Stack.is_full
is_full(vals, max) == count(vals) >= max

(* ------------------------------ methods -------------------------------- *)

\* Stack.show returning an empty list for the empty stack.
showEmptyList(vals) == Outcome(vals, "list", vals, "none")

\* Stack.show
show(vals) ==
    IF is_empty(vals)
    THEN Outcome(vals, "list", <<CInt(CIntMinValue)>>, "none")
    ELSE Outcome(vals, "list", vals, "none")

\* Stack.clear dropping the top item only.
clearTopOnly(vals) ==
    IF ~is_empty(vals)
    THEN Outcome(SubSeq(vals, 1, Len(vals) - 1), "None", <<>>, "none")
    ELSE Outcome(vals, "None", <<>>, "none")

\* Stack.clear
clear(vals) ==
    IF ~is_empty(vals)
    THEN Outcome(<<>>, "None", <<>>, "none")
    ELSE Outcome(vals, "None", <<>>, "none")

\* Stack.push with the capacity test left out.
pushUnchecked(vals, max, value) ==
    IF ~IsCInt(value) THEN Raise(vals, "ValueError")
    ELSE Outcome(Append(vals, value), "None", <<>>, "none")

\* Stack.push testing count > max_size instead of count >= max_size.
pushOffByOne(vals, max, value) ==
    IF ~IsCInt(value) THEN Raise(vals, "ValueError")
    ELSE IF count(vals) > max THEN Raise(vals, "StackOverflow")
    ELSE Outcome(Append(vals, value), "None", <<>>, "none")

\* Stack.push inserting at the bottom instead of the top.
pushAtBottom(vals, max, value) ==
    IF ~IsCInt(value) THEN Raise(vals, "ValueError")
    ELSE IF count(vals) >= max THEN Raise(vals, "StackOverflow")
    ELSE Outcome(<<value>> \o vals, "None", <<>>, "none")

\* Stack.push
push(vals, max, value) ==
    IF ~IsCInt(value) THEN Raise(vals, "ValueError")
    ELSE IF count(vals) >= max THEN Raise(vals, "StackOverflow")
    ELSE Outcome(Append(vals, value), "None", <<>>, "none")

\* Stack.pop returning the minimum value on an empty stack instead of raising.
popSentinel(vals) ==
    IF is_empty(vals) THEN Outcome(vals, "CInt", <<CInt(CIntMinValue)>>, "none")
    ELSE Outcome(SubSeq(vals, 1, Len(vals) - 1), "CInt", <<vals[Len(vals)]>>, "none")

\* Stack.pop returning the top without removing it.
popKeeps(vals) ==
    IF is_empty(vals) THEN Raise(vals, "StackUnderflow")
    ELSE Outcome(vals, "CInt", <<vals[Len(vals)]>>, "none")

\* Stack.pop: list.pop(-1) removes and returns the last item.
pop(vals) ==
    IF is_empty(vals) THEN Raise(vals, "StackUnderflow")
    ELSE Outcome(SubSeq(vals, 1, Len(vals) - 1), "CInt", <<vals[Len(vals)]>>, "none")

\* Stack.peek reading _values[0] instead of _values[-1].
peekBottom(vals) ==
    IF is_empty(vals) THEN Raise(vals, "StackEmpty")
    ELSE Outcome(vals, "CInt", <<vals[1]>>, "none")

\* Stack.peek: _values[-1]
peek(vals) ==
    IF is_empty(vals) THEN Raise(vals, "StackEmpty")
    ELSE Outcome(vals, "CInt", <<vals[Len(vals)]>>, "none")

\* The for loop of push_many over the items not yet pushed: the first push
\* that raises ends the loop, and what was pushed before it stays.
RECURSIVE PushLoop(_, _, _)
PushLoop(vals, max, items) ==
    IF items = <<>> THEN Outcome(vals, "None", <<>>, "none")
    ELSE LET r == push(vals, max, Head(items))
         IN  IF r.err # "none" THEN r
             ELSE PushLoop(r.values, max, Tail(items))

\* Stack.push_many undoing its pushes when one of them raises.
push_manyAtomic(vals, max, arg) ==
    IF arg.kind # "list" THEN Raise(vals, "ValueError")
    ELSE LET r == PushLoop(vals, max, arg.items)
         IN  IF r.err # "none" THEN Raise(vals, r.err) ELSE r

\* Stack.push_many. The argument is a list (kind "list", its items), or a
\* value that is not iterable (kind "int" or "None").
push_many(vals, max, arg) ==
    IF arg.kind # "list" THEN Raise(vals, "ValueError")
    ELSE PushLoop(vals, max, arg.items)

\* list(reversed(values))
reversed(s) == [i \in 1..Len(s) |-> s[Len(s) + 1 - i]]

\* The for loop of pop_many: k pops left to do, popped holds the values
\* popped so far, in the order of the pops.
RECURSIVE PopLoop(_, _, _)
PopLoop(vals, k, popped) ==
    IF k <= 0 THEN Outcome(vals, "list", reversed(popped), "none")
    ELSE LET r == pop(vals)
         IN  IF r.err # "none" THEN r
             ELSE PopLoop(r.values, k - 1, Append(popped, r.ret[1]))

\* Stack.pop_many returning the values in the order of the pops.
pop_manyPopOrder(vals, n) ==
    IF n > count(vals) THEN Raise(vals, "StackUnderflow")
    ELSE LET r == PopLoop(vals, n, <<>>)
         IN  Outcome(r.values, r.retKind, reversed(r.ret), r.err)

\* Stack.pop_many without the test of n against count: the pops run until
\* one of them raises.
pop_manyUnchecked(vals, n) == PopLoop(vals, n, <<>>)

\* Stack.pop_many refusing n < 1 the way peek_many does.
pop_manyChecksN(vals, n) ==
    IF n < 1 THEN Raise(vals, "ValueError")
    ELSE IF n > count(vals) THEN Raise(vals, "StackUnderflow")
    ELSE PopLoop(vals, n, <<>>)

\* Stack.pop_many
pop_many(vals, n) ==
    IF n > count(vals) THEN Raise(vals, "StackUnderflow")
    ELSE PopLoop(vals, n, <<>>)

\* The for loop of peek_many: i runs over range(-1, -n - 1, -1), and
\* _values[i] for a negative i is the item |i| places from the end.
RECURSIVE PeekLoop(_, _, _, _)
PeekLoop(vals, i, n, acc) ==
    IF i < -n THEN acc
    ELSE PeekLoop(vals, i - 1, n, <<vals[Len(vals) + 1 + i]>> \o acc)

\* Stack.peek_many appending to the result instead of inserting at its front.
peek_manyTopFirst(vals, n) ==
    IF n < 1 THEN Raise(vals, "ValueError")
    ELSE IF n > count(vals) THEN Raise(vals, "StackUnderflow")
    ELSE Outcome(vals, "list", reversed(PeekLoop(vals, -1, n, <<>>)), "none")

\* Stack.peek_many testing n < 0 instead of n < 1.
peek_manyZeroAllowed(vals, n) ==
    IF n < 0 THEN Raise(vals, "ValueError")
    ELSE IF n > count(vals) THEN Raise(vals, "StackUnderflow")
    ELSE Outcome(vals, "list", PeekLoop(vals, -1, n, <<>>), "none")

\* Stack.peek_many
peek_many(vals, n) ==
    IF n < 1 THEN Raise(vals, "ValueError")
    ELSE IF n > count(vals) THEN Raise(vals, "StackUnderflow")
    ELSE Outcome(vals, "list", PeekLoop(vals, -1, n, <<>>), "none")

\* Stack.__init__ taking the default only for None: max_size if max_size is
\* not None else sys.maxsize.
InitMaxSizeNoneOnly(capArg) ==
    IF capArg # <<>> THEN capArg[1] ELSE SysMaxsize

\* The capacity Stack.__init__ stores: max_size if max_size else sys.maxsize.
\* The argument is <<>> for None and <<k>> for the integer k.
InitMaxSize(capArg) ==
    IF capArg # <<>> /\ capArg[1] # 0 THEN capArg[1] ELSE SysMaxsize

\* "if values:" of Stack.__init__: None and the empty list are falsy.
Truthy(arg) == arg.kind = "int" \/ (arg.kind = "list" /\ arg.items # <<>>)

\* Stack.__init__ storing the given list instead of pushing its items.
initCopy(valuesArg, capArg) ==
    IF valuesArg.kind = "int" THEN Raise(<<>>, "ValueError")
    ELSE Outcome(valuesArg.items, "None", <<>>, "none")

\* Stack.__init__
init(valuesArg, capArg) ==
    IF Truthy(valuesArg)
    THEN push_many(<<>>, InitMaxSize(capArg), valuesArg)
    ELSE Outcome(<<>>, "None", <<>>, "none")

\* list == list: the same length and equal items, place by place (two CInts
\* are equal when they hold the same value).
ListEq(a, b) == Len(a) = Len(b) /\ \A i \in 1..Len(a) : a[i] = b[i]

\* An operand of == and !=: a Stack (its _values and max_size), or an object
\* that is not a Stack and has no _values attribute.
StackObj(vals, max) == [kind |-> "Stack", values |-> vals, max_size |-> max]

NotAStack == [kind |-> "int", values |-> <<>>, max_size |-> 0]

\* Stack.__eq__ comparing the values only.
eqValuesOnly(vals, max, other) ==
    IF other.kind # "Stack" THEN Raise(vals, "AttributeError")
    ELSE Outcome(vals, "bool", <<ListEq(vals, other.values)>>, "none")

\* Stack.__eq__: other._values raises AttributeError when other has no such
\* attribute.
eq(vals, max, other) ==
    IF other.kind # "Stack" THEN Raise(vals, "AttributeError")
    ELSE Outcome(vals, "bool",
                 <<ListEq(vals, other.values) /\ max = other.max_size>>, "none")

\* Stack.__ne__: not self.__eq__(other)
ne(vals, max, other) ==
    LET r == eq(vals, max, other)
    IN  IF r.err # "none" THEN r
        ELSE Outcome(vals, "bool", <<~r.ret[1]>>, "none")

(* ------------------------------- state --------------------------------- *)

VARIABLES
    values,     \* Stack._values: the items, bottom first
    max_size,   \* Stack.max_size
    alive,      \* FALSE when __init__ raised: the caller holds no stack
    call,       \* the last call: its arguments, what it returned or raised,
                \* and _values and max_size as they were before it
    prevCall,   \* the call before the last one when that was a push that
                \* returned, NoCall otherwise
    base,       \* history: _values before the first push of the current run,
                \* a run being the latest calls of the form push.. pop..
    runPushed,  \* history: the values the pushes of the run pushed, in order
    runPopped,  \* history: the values the pops of the run returned, in order
    capArg,     \* history: the max_size argument __init__ was given
    leaked      \* TRUE when the caller holds the stack's own _values list
                \* object: show() returned it and _values was not bound to
                \* another list since. The items of that list are then
                \* `values`, whoever changes them.

vars == <<values, max_size, alive, call, prevCall, base, runPushed, runPopped,
          capArg, leaked>>

\* The values argument of __init__ and the argument of push_many: None, a
\* value that is not iterable, or a list of objects.
ValueArgs ==
    {[kind |-> "None", items |-> <<>>], [kind |-> "int", items |-> <<>>]}
    \cup {[kind |-> "list", items |-> s] : s \in SeqsUpTo(Objects, LenBound)}

\* The max_size argument of __init__: None, or an integer.
CapArgs == {<<>>} \cup {<<k>> : k \in -1..MaxCap}

\* The n of pop_many and peek_many.
Counts == -1..(LenBound + 1)

CallRecord(op, arg, n, cap, pre, preMax, r) ==
    [op |-> op, kind |-> arg.kind, items |-> arg.items, n |-> n, cap |-> cap,
     pre |-> pre, preMax |-> preMax, retKind |-> r.retKind, ret |-> r.ret, err |-> r.err,
     other |-> NotAStack]

\* The right-hand operands of == and !=: the stacks Stack(V, max_size)
\* builds from the lists V of at most OtherLen CInts, and an object that is
\* no stack.
Operands ==
    {StackObj(init(a[1], a[2]).values, InitMaxSize(a[2])) :
        a \in {b \in {[kind |-> "list", items |-> s] :
                           s \in SeqsUpTo(CInts, OtherLen)} \X CapArgs :
                   init(b[1], b[2]).err = "none"}}
    \cup {NotAStack}

NoArg == [kind |-> "None", items |-> <<>>]

NoCall == CallRecord("none", NoArg, 0, <<>>, <<>>, 0, Raise(<<>>, "none"))

\* The state after Stack(values, max_size).
Init ==
    \E valuesArg \in ValueArgs, capArg0 \in CapArgs :
        LET r == init(valuesArg, capArg0)
        IN  /\ values = r.values
            /\ max_size = InitMaxSize(capArg0)
            /\ alive = (r.err = "none")
            /\ call = CallRecord("__init__", valuesArg, 0, capArg0, <<>>,
                                 InitMaxSize(capArg0), r)
            /\ prevCall = NoCall
            /\ base = r.values
            /\ runPushed = <<>>
            /\ runPopped = <<>>
            /\ capArg = capArg0
            /\ leaked = FALSE

\* The history of the run after a call of op with outcome r.
Track(op, arg, r) ==
    IF op = "push" /\ r.err = "none" /\ runPopped = <<>>
    THEN /\ runPushed' = Append(runPushed, arg.items[1])
         /\ UNCHANGED <<base, runPopped>>
    ELSE IF op = "push" /\ r.err = "none"
    THEN /\ base' = values
         /\ runPushed' = <<arg.items[1]>>
         /\ runPopped' = <<>>
    ELSE IF op = "pop" /\ r.err = "none" /\ Len(runPopped) < Len(runPushed)
    THEN /\ runPopped' = Append(runPopped, r.ret[1])
         /\ UNCHANGED <<base, runPushed>>
    ELSE /\ base' = r.values
         /\ runPushed' = <<>>
         /\ runPopped' = <<>>

\* Whether the caller holds the stack's own list after a call of op.
\* show() returns self._values itself for a stack that holds items, and a new
\* list for the empty stack; append and pop change the list object in place;
\* clear() of a stack that holds items binds _values to a new list, and the
\* list the caller holds is the stack's no more.
Held(op) ==
    IF op = "show" /\ ~is_empty(values) THEN TRUE
    ELSE IF op = "clear" /\ ~is_empty(values) THEN FALSE
    ELSE leaked

\* One call on the stack: op with its arguments, o the other operand of a
\* comparison, r what the method gives.
StepWith(op, arg, n, o, r) ==
    /\ alive
    /\ Len(r.values) <= LenBound
    /\ values' = r.values
    /\ call' = [CallRecord(op, arg, n, <<>>, values, max_size, r) EXCEPT !.other = o]
    /\ prevCall' = IF call.op = "push" /\ call.err = "none" THEN call ELSE NoCall
    /\ Track(op, arg, r)
    /\ leaked' = Held(op)
    /\ UNCHANGED <<max_size, alive, capArg>>

Step(op, arg, n, r) == StepWith(op, arg, n, NotAStack, r)

Push ==
    \E value \in Objects :
        Step("push", [kind |-> "obj", items |-> <<value>>], 0,
             push(values, max_size, value))

Pop == Step("pop", NoArg, 0, pop(values))

Peek == Step("peek", NoArg, 0, peek(values))

PushMany ==
    \E arg \in ValueArgs :
        Step("push_many", arg, 0, push_many(values, max_size, arg))

PopMany == \E n \in Counts : Step("pop_many", NoArg, n, pop_many(values, n))

PeekMany == \E n \in Counts : Step("peek_many", NoArg, n, peek_many(values, n))

Clear == Step("clear", NoArg, 0, clear(values))

Show == Step("show", NoArg, 0, show(values))

\* stack == other
Eq == \E o \in Operands : StepWith("__eq__", NoArg, 0, o, eq(values, max_size, o))

\* stack != other
Ne == \E o \in Operands : StepWith("__ne__", NoArg, 0, o, ne(values, max_size, o))

Next ==
    \/ Push
    \/ Pop
    \/ Peek
    \/ PushMany
    \/ PopMany
    \/ PeekMany
    \/ Clear
    \/ Show
    \/ Eq
    \/ Ne

Spec == Init /\ [][Next]_vars

\* The caller appends a CInt to the list show() gave it, which is the
\* stack's own _values: the stack holds the item too.
CallerAppend ==
    \E value \in CInts :
        /\ alive
        /\ leaked
        /\ Len(values) < LenBound
        /\ values' = Append(values, value)
        /\ call' = CallRecord("list.append", [kind |-> "obj", items |-> <<value>>],
                              0, <<>>, values, max_size,
                              Outcome(values', "None", <<>>, "none"))
        /\ prevCall' = NoCall
        /\ base' = values'
        /\ runPushed' = <<>>
        /\ runPopped' = <<>>
        /\ UNCHANGED <<max_size, alive, capArg, leaked>>

NextWithCaller ==
    \/ Next
    \/ CallerAppend

\* The stack together with a caller that alters the lists show() returns.
SpecWithCaller == Init /\ [][NextWithCaller]_vars

(* ------------------------------ claims --------------------------------- *)

\* The items of a list are all CInt objects.
AllCInt(items) == \A i \in 1..Len(items) : IsCInt(items[i])

\* The top n items of s, bottom first (none when n <= 0).
TopOf(s, n) == SubSeq(s, Len(s) - n + 1, Len(s))

\* C1: on a stack constructed with a positive max_size, whatever calls were
\* made on it and whether they returned or raised, 0 <= count <= max_size.
C1_CountWithinCapacity ==
    max_size > 0 => (0 <= count(values) /\ count(values) <= max_size)

\* C1 witness: a push was refused on a stack holding max_size items.
C1_Witness ==
    /\ alive
    /\ max_size > 0
    /\ call.op = "push"
    /\ call.err = "StackOverflow"
    /\ count(values) = max_size

\* C2: when the values V were pushed one by one onto an empty stack and
\* pop was then called len(V) times, the pops returned V in reverse order
\* and the stack is empty (and after fewer pops, the pops returned the end
\* of V in reverse order).
C2_PushThenPopReverses ==
    base = <<>> =>
        /\ \A i \in 1..Len(runPopped) :
               runPopped[i] = runPushed[Len(runPushed) + 1 - i]
        /\ Len(runPopped) = Len(runPushed) => values = <<>>

\* C2 witness: at least two values, not all equal, were pushed onto the
\* empty stack and all popped again.
C2_Witness ==
    /\ base = <<>>
    /\ Len(runPushed) >= 2
    /\ runPushed[1] # runPushed[2]
    /\ Len(runPopped) = Len(runPushed)
    /\ call.op = "pop"

\* C3: push of a CInt on a stack with count >= max_size raises
\* StackOverflow and leaves the items, their order, count and max_size as
\* they were; with count < max_size it puts the value on top and count
\* grows by exactly 1.
C3_PushFullOrAppend ==
    (call.op = "push" /\ IsCInt(call.items[1])) =>
        IF count(call.pre) >= call.preMax
        THEN /\ call.err = "StackOverflow"
             /\ values = call.pre
             /\ count(values) = count(call.pre)
             /\ max_size = call.preMax
        ELSE /\ call.err = "none"
             /\ values = call.pre \o <<call.items[1]>>
             /\ count(values) = count(call.pre) + 1

\* C3 witness: a push was refused on a full stack that holds items.
C3_Witness ==
    /\ call.op = "push"
    /\ IsCInt(call.items[1])
    /\ count(call.pre) >= call.preMax
    /\ call.pre # <<>>
    /\ call.err = "StackOverflow"

C5_PopManyAnyN ==
    (call.op = "pop_many" /\ call.n <= count(call.pre)) =>
        /\ call.err = "none"
        /\ count(values) = count(call.pre) - call.n
        /\ call.ret = TopOf(call.pre, call.n)
        /\ values = SubSeq(call.pre, 1, count(call.pre) - call.n)

\* C5, amended: for every n with 0 <= n <= count, pop_many(n) returns the
\* top n items bottom first (the reverse of the order single pops return
\* them in), count goes down by n and the count - n items below stay as
\* they were, in their order.
C5_PopManyTopN ==
    (call.op = "pop_many" /\ 0 <= call.n /\ call.n <= count(call.pre)) =>
        /\ call.err = "none"
        /\ call.retKind = "list"
        /\ count(values) = count(call.pre) - call.n
        /\ call.ret = TopOf(call.pre, call.n)
        /\ Len(call.ret) = call.n
        /\ \A i \in 1..call.n : call.ret[i] = pop(SubSeq(call.pre, 1,
               count(call.pre) - call.n + i)).ret[1]
        /\ values = SubSeq(call.pre, 1, count(call.pre) - call.n)

\* C5 witness: pop_many took two or more items, not all equal, off a stack
\* and left items behind.
C5_Witness ==
    /\ call.op = "pop_many"
    /\ call.n >= 2
    /\ call.err = "none"
    /\ call.ret[1] # call.ret[2]
    /\ values # <<>>
    /\ count(call.pre) = count(values) + call.n

\* C6: for 1 <= n <= count, peek_many(n) returns the last n items of the
\* stack in stack order and leaves the items, count and max_size alone.
C6_PeekManyTopN ==
    (call.op = "peek_many" /\ 1 <= call.n /\ call.n <= count(call.pre)) =>
        /\ call.err = "none"
        /\ call.retKind = "list"
        /\ call.ret = TopOf(call.pre, call.n)
        /\ values = call.pre
        /\ count(values) = count(call.pre)
        /\ max_size = call.preMax

\* C6 witness: peek_many returned two or more items, not all equal, from a
\* stack holding more than that.
C6_Witness ==
    /\ call.op = "peek_many"
    /\ call.n >= 2
    /\ call.n < count(call.pre)
    /\ call.err = "none"
    /\ call.ret[1] # call.ret[2]

\* C7: on the empty stack pop raises StackUnderflow and peek raises the
\* other kind StackEmpty; neither returns a value, and the stack stays
\* empty with its max_size.
C7_EmptyPopPeek ==
    /\ (call.op = "pop" /\ call.pre = <<>>) =>
           /\ call.err = "StackUnderflow"
           /\ call.retKind = "None"
           /\ values = <<>>
           /\ max_size = call.preMax
    /\ (call.op = "peek" /\ call.pre = <<>>) =>
           /\ call.err = "StackEmpty"
           /\ call.retKind = "None"
           /\ values = <<>>
           /\ max_size = call.preMax

\* C7 witness: pop was called on an empty stack that can hold items.
C7_Witness ==
    /\ call.op = "pop"
    /\ call.pre = <<>>
    /\ call.err = "StackUnderflow"
    /\ max_size > 0

\* C8: pop_many(n) with n > count raises StackUnderflow and removes
\* nothing: count and the items, in their order, are as before the call.
C8_PopManyUnderflow ==
    (call.op = "pop_many" /\ call.n > count(call.pre)) =>
        /\ call.err = "StackUnderflow"
        /\ values = call.pre
        /\ count(values) = count(call.pre)

\* C8 witness: pop_many asked for more items than a stack holding items had.
C8_Witness ==
    /\ call.op = "pop_many"
    /\ call.n > count(call.pre)
    /\ call.pre # <<>>
    /\ call.err = "StackUnderflow"

\* C9: peek_many(n) raises ValueError for every n < 1 whatever the stack
\* holds, and StackUnderflow for every n >= 1 with n > count; the stack is
\* unchanged in both cases.
C9_PeekManyErrors ==
    call.op = "peek_many" =>
        /\ call.n < 1 =>
               (call.err = "ValueError" /\ values = call.pre
                   /\ max_size = call.preMax)
        /\ (call.n >= 1 /\ call.n > count(call.pre)) =>
               (call.err = "StackUnderflow" /\ values = call.pre
                   /\ max_size = call.preMax)

\* C9 witness: peek_many(0) was refused on the empty stack.
C9_Witness ==
    /\ call.op = "peek_many"
    /\ call.n = 0
    /\ call.pre = <<>>
    /\ call.err = "ValueError"

\* C10: a pop made right after a push that returned gives back the pushed
\* value and puts the stack back as it was before the push: the same
\* items in the same order, the same count.
C10_PushPopRoundTrip ==
    (call.op = "pop" /\ prevCall.op = "push") =>
        /\ call.err = "none"
        /\ call.ret = prevCall.items
        /\ values = prevCall.pre
        /\ count(values) = count(prevCall.pre)

\* C10 witness: a value was pushed onto a stack holding items and popped
\* again at once.
C10_Witness ==
    /\ call.op = "pop"
    /\ prevCall.op = "push"
    /\ prevCall.pre # <<>>
    /\ call.err = "none"

\* C11: on a stack that holds items, peek returns the top item, the one
\* the next pop would return, and changes neither count nor the items; a
\* pop that returns removes exactly the top item, count going down by 1
\* and the other items staying in place.
C11_PeekAndPopTop ==
    /\ (call.op = "peek" /\ call.pre # <<>>) =>
           /\ call.err = "none"
           /\ call.retKind = "CInt"
           /\ call.ret = <<call.pre[Len(call.pre)]>>
           /\ call.ret = pop(call.pre).ret
           /\ values = call.pre
           /\ count(values) = count(call.pre)
    /\ (call.op = "pop" /\ call.pre # <<>>) =>
           /\ call.err = "none"
           /\ call.retKind = "CInt"
           /\ call.ret = <<call.pre[Len(call.pre)]>>
           /\ count(values) = count(call.pre) - 1
           /\ values = SubSeq(call.pre, 1, Len(call.pre) - 1)

\* C11 witness: peek was called on a stack whose top and bottom items differ.
C11_Witness ==
    /\ call.op = "peek"
    /\ Len(call.pre) >= 2
    /\ call.pre[1] # call.pre[Len(call.pre)]
    /\ call.err = "none"

\* C12: show() returns all the items, bottom first, for a stack that holds
\* items, and the one-item list of CInt.min_value for the empty stack; it
\* changes neither count nor the items (the minimum value is not stored).
C12_ShowContentsOrSentinel ==
    call.op = "show" =>
        /\ call.err = "none"
        /\ call.retKind = "list"
        /\ values = call.pre
        /\ count(values) = count(call.pre)
        /\ IF call.pre = <<>>
           THEN call.ret = <<CInt(CIntMinValue)>> /\ values = <<>>
           ELSE call.ret = call.pre /\ Len(call.ret) = count(values)

\* C12 witness: show() was called on the empty stack.
C12_Witness ==
    /\ call.op = "show"
    /\ call.pre = <<>>
    /\ call.ret = <<CInt(CIntMinValue)>>
    /\ values = <<>>

C14_MaxSizePositiveAndFixed ==
    alive => (max_size > 0 /\ max_size = call.preMax)

\* C15: stack == other, for two stacks, is True exactly when both have the
\* same max_size and the same items in the same order, and stack != other
\* is its negation; the comparison changes nothing.
C15_EqualityContract ==
    (call.op \in {"__eq__", "__ne__"} /\ call.other.kind = "Stack") =>
        /\ call.err = "none"
        /\ call.retKind = "bool"
        /\ values = call.pre
        /\ (call.op = "__eq__") =>
               (call.ret[1] <=> (/\ call.other.max_size = max_size
                                 /\ call.other.values = values))
        /\ (call.op = "__ne__") =>
               (call.ret[1] <=> ~(/\ call.other.max_size = max_size
                                  /\ call.other.values = values))

\* C15 witness: a stack was compared with one that holds the same items, two
\* or more, and has another capacity, and they are not equal.
C15_Witness ==
    /\ call.op = "__eq__"
    /\ call.other.kind = "Stack"
    /\ call.other.values = values
    /\ Len(values) >= 2
    /\ call.other.max_size # max_size
    /\ call.ret = <<FALSE>>

\* The calls that only ask.
Queries == {"peek", "peek_many", "show", "__eq__", "__ne__"}

\* C16: no query changes the items; a caller that alters the list show()
\* returned does not alter the items of the stack; and the calls made after
\* a show() do not alter the list it returned (while the caller holds the
\* stack's own list, the items of that list are `values`).
C16_ShowGivesNoHandle ==
    [][/\ call'.op \in Queries => values' = values
       /\ call'.op = "list.append" => values' = values
       /\ (leaked /\ leaked' /\ call'.op # "show") => values' = values]_vars

\* C17: clear() leaves the stack empty with its max_size, changes nothing
\* on an empty stack, and the stack then takes pushes up to max_size again.
C17_ClearEmpties ==
    call.op = "clear" =>
        /\ call.err = "none"
        /\ values = <<>>
        /\ count(values) = 0
        /\ is_empty(values)
        /\ max_size = call.preMax
        /\ call.pre = <<>> => values = call.pre
        /\ \A k \in 1..LenBound : \A items \in [1..k -> CInts] :
               k <= max_size =>
                   PushLoop(values, max_size, items)
                       = Outcome(items, "None", <<>>, "none")

\* C17 witness: clear() was called on a full stack of two or more items.
C17_Witness ==
    /\ call.op = "clear"
    /\ count(call.pre) >= 2
    /\ count(call.pre) = max_size
    /\ values = <<>>

\* C18: comparing a stack with a value that is no stack gives "not equal",
\* or is refused by a type check; it does not end in another error.
C18_CompareNonStackCleanly ==
    (call.op \in {"__eq__", "__ne__"} /\ call.other.kind # "Stack") =>
        \/ call.err = "none" /\ call.ret = <<call.op = "__ne__">>
        \/ call.err = "TypeError"

\* C19: pop_many(n) with n <= 0 never raises, the empty stack included: it
\* returns the empty list and leaves count and the items alone, where
\* peek_many raises ValueError for the same n; the only error of pop_many
\* is StackUnderflow, for n > count.
C19_PopManyNonPositive ==
    /\ (call.op = "pop_many" /\ call.n <= 0) =>
           /\ call.err = "none"
           /\ call.retKind = "list"
           /\ call.ret = <<>>
           /\ values = call.pre
           /\ count(values) = count(call.pre)
    /\ (call.op = "peek_many" /\ call.n <= 0) => call.err = "ValueError"
    /\ (call.op = "pop_many" /\ call.err # "none") =>
           (call.err = "StackUnderflow" /\ call.n > count(call.pre))

\* C19 witness: pop_many was called with a negative n on the empty stack.
C19_Witness ==
    /\ call.op = "pop_many"
    /\ call.n < 0
    /\ call.pre = <<>>
    /\ call.err = "none"

\* C20: a max_size argument of 0 gives what no argument gives: max_size is
\* sys.maxsize, the stack is not full and pushes of CInts succeed; no stack
\* has max_size 0; a negative argument is stored as given.
C20_ZeroCapacityIsDefault ==
    /\ capArg \in {<<>>, <<0>>} =>
           /\ max_size = SysMaxsize
           /\ ~is_full(values, max_size)
           /\ (call.op = "push" /\ IsCInt(call.items[1])) => call.err = "none"
    /\ max_size # 0
    /\ (capArg # <<>> /\ capArg[1] < 0) => max_size = capArg[1]

\* C20 witness: a stack constructed with max_size 0 took a push beyond the
\* first item.
C20_Witness ==
    /\ capArg = <<0>>
    /\ alive
    /\ call.op = "push"
    /\ call.err = "none"
    /\ count(values) >= 2

====
